---- MODULE Spec2Model ----
(***************************************************************************)
(* A model of hello_world_evolution: the life-form chain                   *)
(* (core/life_forms.py), the evolution engine (core/evolution_engine.py),  *)
(* the message generator (generators/message_generator.py) and the        *)
(* orchestration in main.py.                                               *)
(*                                                                         *)
(* A Python str is modelled as a sequence of one-character strings, so     *)
(* that concatenation, reversal and comparison are computed.               *)
(***************************************************************************)
EXTENDS Integers, Sequences, FiniteSets, TLC

(* ---------------------------- bounds ----------------------------------- *)

\* Pipeline invocations (Application.execute calls) explored per process.
MaxRuns == 3

\* Longest input string drawn for the pure-function specifications.
MaxLen == 3

\* Characters the input strings are drawn from.
Alphabet == {"H", " ", "d"}

\* Complexities an arbitrary initial organism is drawn with.
Complexities == {1, 2}

(* ---------------------------- strings ---------------------------------- *)

RECURSIVE StringsOfLen(_)
StringsOfLen(n) ==
    IF n = 0 THEN {<<>>}
    ELSE {Append(s, c) : s \in StringsOfLen(n - 1), c \in Alphabet}

Strings == UNION {StringsOfLen(n) : n \in 0..MaxLen}

H == <<"H">>
ello == <<"e", "l", "l", "o">>
Space == <<" ">>
World == <<"W", "o", "r", "l", "d">>
HelloWorld == <<"H", "e", "l", "l", "o", " ", "W", "o", "r", "l", "d">>

(* ------------------------ core/life_forms.py --------------------------- *)

\* LifeForm.__init__ after MessageCarrierMixin.__init__: an empty fragment,
\* the given complexity (the DNASequence holds the same number).
LifeFormInit(kind, complexity) ==
    [kind |-> kind, msg |-> <<>>, complexity |-> complexity]

carry_message(o, fragment) == [o EXCEPT !.msg = fragment]

get_message_fragment(o) == o.msg

\* LifeForm.mutate: complexity := complexity * mutation_factor, in place.
mutate_pure(o, mutation_factor) == o

mutate(o, mutation_factor) ==
    [o EXCEPT !.complexity = o.complexity * mutation_factor]

Fish == carry_message(LifeFormInit("Fish", 1), H)

Amphibian(inherited_complexity, inherited_message) ==
    carry_message(LifeFormInit("Amphibian", inherited_complexity),
                  inherited_message \o ello)

Reptile_nospace(inherited_complexity, inherited_message) ==
    carry_message(LifeFormInit("Reptile", inherited_complexity),
                  inherited_message)

Reptile(inherited_complexity, inherited_message) ==
    carry_message(LifeFormInit("Reptile", inherited_complexity),
                  inherited_message \o Space)

Dinosaur(inherited_complexity, inherited_message) ==
    carry_message(LifeFormInit("Dinosaur", inherited_complexity),
                  inherited_message \o World)

\* MessageBearer has no complexity attribute and no evolve method.
MessageBearer(final_message) ==
    [kind |-> "MessageBearer", msg |-> final_message]

reveal(bearer) == bearer.msg

\* Each evolve mutates the receiver and returns a new successor:
\* self is the receiver afterwards, next the value returned.
Fish_evolve(o) ==
    LET s == mutate(o, 2)
    IN [self |-> s, next |-> Amphibian(s.complexity, get_message_fragment(s))]

Amphibian_evolve_skip(o) ==
    LET s == mutate(o, 3)
    IN [self |-> s, next |-> Dinosaur(s.complexity, get_message_fragment(s))]

Amphibian_evolve(o) ==
    LET s == mutate(o, 3)
    IN [self |-> s, next |-> Reptile(s.complexity, get_message_fragment(s))]

Reptile_evolve(o) ==
    LET s == mutate(o, 4)
    IN [self |-> s, next |-> Dinosaur(s.complexity, get_message_fragment(s))]

Dinosaur_evolve_append(o) ==
    LET s == mutate(o, 5)
    IN [self |-> s, next |-> MessageBearer(get_message_fragment(s) \o Space)]

Dinosaur_evolve(o) ==
    LET s == mutate(o, 5)
    IN [self |-> s, next |-> MessageBearer(get_message_fragment(s))]

\* hasattr(current, 'evolve')
HasEvolve(o) == o.kind \in {"Fish", "Amphibian", "Reptile", "Dinosaur"}

\* current.evolve(), dispatched on the receiver's class.
Evolve(o) ==
    CASE o.kind = "Fish" -> Fish_evolve(o)
      [] o.kind = "Amphibian" -> Amphibian_evolve(o)
      [] o.kind = "Reptile" -> Reptile_evolve(o)
      [] o.kind = "Dinosaur" -> Dinosaur_evolve(o)

\* hasattr(x, 'reveal')
HasReveal(o) == o.kind = "MessageBearer"

(* --------------------------- core/stages.py ---------------------------- *)

\* The stages list of run_evolution, by EvolutionStage member name.
stages ==
    <<"AQUATIC", "AMPHIBIOUS", "TERRESTRIAL", "APEX_PREDATOR", "TRANSCENDENT">>

(* ------------------------- patterns/observer.py ------------------------ *)

\* EvolutionLogger.on_evolution_step appends
\* "Evolution stage: <stage.name> - Organism: <class name>";
\* SilentObserver.on_evolution_step does nothing.
on_evolution_step(observer, organism, stage, entries) ==
    IF observer = "EvolutionLogger"
    THEN Append(entries, [stage |-> stage, organism |-> organism.kind])
    ELSE entries

(* ---------------------- core/evolution_engine.py ----------------------- *)

NoEngine ==
    [created |-> FALSE, observers |-> <<>>, strategy |-> "", debug |-> FALSE]

EvolutionEngine(strategy, debug) ==
    [created |-> TRUE, observers |-> <<>>, strategy |-> strategy,
     debug |-> debug]

attach_observer(e, observer) ==
    [e EXCEPT !.observers = Append(@, observer)]

\* for observer in self._observers: observer.on_evolution_step(...)
\* The value is the logger's entry list afterwards.
RECURSIVE notify_observers(_, _, _, _)
notify_observers(observers, organism, stage, entries) ==
    IF observers = <<>> THEN entries
    ELSE notify_observers(Tail(observers), organism, stage,
             on_evolution_step(Head(observers), organism, stage, entries))

\* The on_evolution_step calls that loop makes, in the order it makes
\* them: one per entry of the observer list, each with the organism and
\* the stage it was handed.
notify_observers_calls_reversed(observers, organism, stage) ==
    [i \in 1..Len(observers) |->
        [observer |-> observers[Len(observers) + 1 - i], stage |-> stage,
         organism |-> organism]]

notify_observers_calls(observers, organism, stage) ==
    [i \in 1..Len(observers) |->
        [observer |-> observers[i], stage |-> stage, organism |-> organism]]

\* EvolutionEngine.detach: list.remove drops the first occurrence.
RECURSIVE detach_observer(_, _)
detach_observer(observers, observer) ==
    IF observers = <<>> THEN <<>>
    ELSE IF Head(observers) = observer THEN Tail(observers)
    ELSE <<Head(observers)>> \o detach_observer(Tail(observers), observer)

(* ------------------------------ output --------------------------------- *)

\* One printed line: the literal part of the format string (label), the
\* interpolated stage name, class name and complexity, and the interpolated
\* message (text).  print(result) is a line with an empty label.
Line(label, stage, organism, complexity, text) ==
    [label |-> label, stage |-> stage, organism |-> organism,
     complexity |-> complexity, text |-> text]

Note(label) == Line(label, "", "", <<>>, <<>>)

BlankLine == Note("")

Rule == Note("============================================================")

ResultLine(message) == Line("", "", "", <<>>, message)

\* getattr(current, 'complexity', 'N/A'): <<n>>, or <<>> for 'N/A'.
ComplexityOf(o) == IF HasEvolve(o) THEN <<o.complexity>> ELSE <<>>

\* The "[EVOLUTION] Stage: ..." line of one loop iteration.
StageLine(stage, o) ==
    Line("[EVOLUTION] Stage", stage, o.kind, ComplexityOf(o), o.msg)

\* The "-> Evolved to: ..." line that follows a transformation.
EvolvedLine(next_form) ==
    Line("Evolved to", "", next_form.kind, <<>>, next_form.msg)

\* if DEBUG: print(...)
DebugLines(flag, lines) == IF flag THEN lines ELSE <<>>

(* ------------------- generators/message_generator.py ------------------- *)

\* str(source): a str is itself; MessageBearer.__str__ is reveal().
str(source) == source.msg

_composed_generation(source) ==
    IF HasReveal(source) THEN reveal(source) ELSE str(source)

_simple_generation(source) == str(source)

_dynamic_generation(source) == HelloWorld

_meta_generation(source) == <<"H", "e", "l", "l", "o">> \o Space \o World

\* self._strategies.get(strategy, self._simple_generation)(source)
generate(source, strategy) ==
    CASE strategy = "composed" -> _composed_generation(source)
      [] strategy = "dynamic" -> _dynamic_generation(source)
      [] strategy = "meta" -> _meta_generation(source)
      [] OTHER -> _simple_generation(source)

RECURSIVE reverse(_)
reverse(message) ==
    IF message = <<>> THEN <<>>
    ELSE Append(reverse(Tail(message)), Head(message))

identity(message) == message

Transform(name, message) ==
    CASE name = "identity" -> identity(message)
      [] name = "reverse" -> reverse(message)

RECURSIVE apply_pipeline(_, _)
apply_pipeline(message, transformations) ==
    IF transformations = <<>> THEN message
    ELSE apply_pipeline(Transform(Head(transformations), message),
                        Tail(transformations))

\* LazyMessage: the generator (here lambda: message) and the cache, None
\* being cached.has = FALSE.
LazyMessage(message) ==
    [generator |-> message, has |-> FALSE, value |-> <<>>]

\* if self._cached_value is None
NeedsGenerator_falsy(lazy) == ~lazy.has \/ lazy.value = <<>>

NeedsGenerator(lazy) == ~lazy.has

\* LazyMessage.force / __str__: the lazy object afterwards and the value.
force(lazy) ==
    LET l == IF NeedsGenerator(lazy)
             THEN [lazy EXCEPT !.has = TRUE, !.value = lazy.generator]
             ELSE lazy
    IN [lazy |-> l, value |-> l.value]

(* ------------------------------ main.py -------------------------------- *)

\* HelloWorldOrchestrator.extract_message without its debug prints:
\* generate(..., 'composed'), then apply_pipeline(raw, identity).
DefaultTransformations_reversing == <<"reverse">>

DefaultTransformations == <<"identity">>

extract_message(message_bearer) ==
    apply_pipeline(generate(message_bearer, "composed"),
                   DefaultTransformations)

initialize_engine_nodebug(debug) ==
    attach_observer(
        attach_observer(EvolutionEngine("LinearEvolutionStrategy", FALSE),
                        "EvolutionLogger"),
        "SilentObserver")

initialize_engine_alwaysdebug(debug) ==
    attach_observer(
        attach_observer(EvolutionEngine("LinearEvolutionStrategy", TRUE),
                        "EvolutionLogger"),
        "SilentObserver")

\* HelloWorldOrchestrator.initialize_engine: a linear strategy, the debug
\* flag as it is now, the logger and the silent observer attached.
initialize_engine(debug) ==
    attach_observer(
        attach_observer(EvolutionEngine("LinearEvolutionStrategy", debug),
                        "EvolutionLogger"),
        "SilentObserver")

\* The debug prints of initialize_engine.
initialize_engine_lines ==
    <<Note("[DEBUG] Initializing Evolution Engine..."),
      Line("[DEBUG] Strategy", "", "LinearEvolutionStrategy", <<>>, <<>>),
      Note("[DEBUG] Observers attached: EvolutionLogger, SilentObserver")>>

create_initial_organism_lines(fish) ==
    <<Note("[DEBUG] Creating initial organism: Fish"),
      Line("[DEBUG] Fish created with message", "", "", <<>>,
           get_message_fragment(fish))>>

(* ------------------------------- state --------------------------------- *)

VARIABLES
    pc,            \* where the process is: "idle", "main", "loop", "returned",
                   \* "executed", "after_run", "raised", "exit"
    DEBUG,         \* main.DEBUG, the module-level flag
    debug_arg,     \* the debug argument of the main() call in progress or last made
    instances,     \* SingletonMeta._instances, by class name
    engine,        \* HelloWorldOrchestrator._engine (NoEngine is None)
    log_entries,   \* EvolutionLogger._log_entries
    app,           \* the Application: whether it exists, and _execution_count
    caller,        \* who called Application.execute: "run" or "execute"
    organism,      \* the initial organism object held by the caller of run_evolution
    current,       \* run_evolution's local current
    stageIdx,      \* how many entries of stages the for loop has consumed
    final_form,    \* what run_evolution returned, if it has returned
    result,        \* what Application.execute returned, if it has returned
    exception,     \* the exception in flight or last raised ("" when none)
    stdout,        \* the lines written to standard output, oldest first
    stderr,        \* the lines written to standard error
    exitCode,      \* the status the process ends with
    runs,          \* Application.execute calls made so far
    trace,         \* history: one record per loop iteration of the run in progress
    results,       \* history: every value Application.execute returned
    outMark,       \* history: Len(stdout) when the last main() call began
    errMark,       \* history: Len(stderr) when the last main() call began
    logMark,       \* history: Len(log_entries) when the run in progress began
    calls,         \* history: the on_evolution_step calls of the run in progress
    orch,          \* history: on the orchestrator in place, how many times
                   \* initialize_engine was called (builds) and how many
                   \* run_evolution_pipeline calls began (runs)
    rsrc,          \* Result Extractor: the input drawn (a source record)
    rpc,           \* Result Extractor: "input", "once", "twice" applications made
    r1,            \* Result Extractor: extract_message(input)
    r2             \* Result Extractor: extract_message of r1

procVars ==
    <<pc, DEBUG, debug_arg, instances, engine, log_entries, app, caller,
      organism, current, stageIdx, final_form, result, exception, stdout,
      stderr, exitCode, runs, trace, results, outMark, errMark, logMark,
      calls, orch>>

renderVars == <<rsrc, rpc, r1, r2>>

VARIABLES
    f_registry,    \* ConcreteLifeFormFactory._registry: key -> class name
    f_strategies,  \* EvolutionStrategyFactory._strategies: key -> class name
    f_log,         \* history: one record per factory request made
    s_instances,   \* SingletonMeta._instances: class -> instance id (0: absent)
    s_lock,        \* SingletonMeta._lock: the thread holding it (0: free)
    s_stack,       \* per thread: the frames of the calls it is in, innermost first
    s_ctorRuns,    \* history: per class, how many times its __init__ has run
    s_returned,    \* history: per thread, what its finished top-level calls returned
    s_nextId,      \* the next instance id object creation hands out
    s_clears,      \* history: clear_instances calls begun
    e_obj,         \* the organism evolve is called on, as it is now
    e_orig,        \* history: that organism as it was before any evolve
    e_first,       \* what its first evolve() returned
    e_second,      \* what its second evolve() returned
    e_pc,          \* how many evolve() calls have been made on it
    p_org,         \* EvolutionPipeline.execute: the reduce accumulator
    p_left,        \* EvolutionPipeline.execute: the stages still to apply
    p_applied,     \* history: one record per stage applied
    alt,           \* history: the alternative entry points called, with
                   \* what each returned (alternative_main: printed)
    rt_max,        \* retry: max_attempts
    rt_pc,         \* retry: "idle", "call" (in the loop), "returned", "raised"
    rt_attempt,    \* retry: the loop variable attempt
    rt_last,       \* retry: last_exception ("": None)
    rt_calls,      \* history: the outcomes of the calls of func, in order
    rt_sleeps,     \* history: for each time.sleep call, the number of calls
                   \* of func made before it
    rt_result,     \* retry: the value returned or the exception raised
    lz,            \* the LazyMessage; its generator field is what the
                   \* generator returns if invoked now
    lz_genCalls,   \* history: invocations of its generator
    lz_returns     \* history: what each str()/force() call returned

factoryVars == <<f_registry, f_strategies, f_log>>

singVars ==
    <<s_instances, s_lock, s_stack, s_ctorRuns, s_returned, s_nextId,
      s_clears>>

twiceVars == <<e_obj, e_orig, e_first, e_second, e_pc>>

pipeVars == <<p_org, p_left, p_applied>>

altVars == <<alt>>

retryVars ==
    <<rt_max, rt_pc, rt_attempt, rt_last, rt_calls, rt_sleeps, rt_result>>

lazyVars == <<lz, lz_genCalls, lz_returns>>

\* Everything but the process state.
auxVars ==
    <<renderVars, factoryVars, singVars, twiceVars, pipeVars, altVars,
      retryVars, lazyVars>>

vars == <<procVars, auxVars>>

\* No value: Python's None for an organism-valued and a str-valued local.
\* No initialize_engine and no run_evolution_pipeline call yet.
NoOrchestrator == [builds |-> 0, runs |-> 0]

NoForm == [kind |-> "None", msg |-> <<>>]
NoResult == [has |-> FALSE, value |-> <<>>]

\* A str as a source of MessageGenerator.generate.
Str(x) == [kind |-> "str", msg |-> x]

\* A fresh process: nothing constructed, nothing printed.
ProcInit ==
    /\ pc = "idle"
    /\ DEBUG = FALSE
    /\ debug_arg = FALSE
    /\ instances = {}
    /\ engine = NoEngine
    /\ log_entries = <<>>
    /\ app = [exists |-> FALSE, execution_count |-> 0]
    /\ caller = ""
    /\ organism = NoForm
    /\ current = NoForm
    /\ stageIdx = 0
    /\ final_form = NoForm
    /\ result = NoResult
    /\ exception = ""
    /\ stdout = <<>>
    /\ stderr = <<>>
    /\ exitCode = 0
    /\ runs = 0
    /\ trace = <<>>
    /\ results = <<>>
    /\ outMark = 0
    /\ errMark = 0
    /\ logMark = 0
    /\ calls = <<>>
    /\ orch = NoOrchestrator

RenderIdle ==
    /\ rsrc = Str(<<>>)
    /\ rpc = "input"
    /\ r1 = <<>>
    /\ r2 = <<>>

(* ------------- patterns/factory.py, patterns/strategy.py --------------- *)

MaxRequests == 2

\* The names requests are made with, and str.lower on them.
SpeciesNames == {"fish", "Fish", "dinosaur", "raptor", "Raptor", "dragon"}
StrategyNames == {"linear", "Accelerated", "warp", "Warp", "quantum"}

lower(name) ==
    CASE name = "Fish" -> "fish"
      [] name = "Raptor" -> "raptor"
      [] name = "Accelerated" -> "accelerated"
      [] name = "Warp" -> "warp"
      [] OTHER -> name

\* **kwargs of a request: none, or inherited_complexity and
\* inherited_message.
NoKwargs == [given |-> FALSE, complexity |-> 0, message |-> <<>>]

Kwargs(complexity, message) ==
    [given |-> TRUE, complexity |-> complexity, message |-> message]

KwargsSet ==
    {NoKwargs} \cup {Kwargs(c, m) : c \in Complexities, m \in {<<>>, H}}

\* ConcreteLifeFormFactory.__init__: the registry of a new factory.
ConcreteLifeFormFactory ==
    [fish |-> "Fish", amphibian |-> "Amphibian", reptile |-> "Reptile",
     dinosaur |-> "Dinosaur"]

\* EvolutionStrategyFactory._strategies as the class body leaves it.
EvolutionStrategyFactory ==
    [linear |-> "LinearEvolutionStrategy",
     accelerated |-> "AcceleratedEvolutionStrategy"]

\* self._registry[species_type.lower()] = life_form_class
register(registry, species_type, life_form_class) ==
    [k \in DOMAIN registry \cup {lower(species_type)} |->
        IF k = lower(species_type) THEN life_form_class ELSE registry[k]]

\* life_form_class(**kwargs): the constructor defaults are 2, 6 and 24.
NewLifeForm(class, kwargs) ==
    CASE class = "Fish" -> Fish
      [] class = "Amphibian" ->
            IF kwargs.given THEN Amphibian(kwargs.complexity, kwargs.message)
            ELSE Amphibian(2, <<>>)
      [] class = "Reptile" ->
            IF kwargs.given THEN Reptile(kwargs.complexity, kwargs.message)
            ELSE Reptile(6, <<>>)
      [] class = "Dinosaur" ->
            IF kwargs.given THEN Dinosaur(kwargs.complexity, kwargs.message)
            ELSE Dinosaur(24, <<>>)

\* strategy_class(**kwargs): acceleration_factor defaults to 2.
NewStrategy(class, kwargs) ==
    IF class = "LinearEvolutionStrategy"
    THEN [kind |-> class]
    ELSE [kind |-> class,
          acceleration_factor |->
              IF kwargs.given THEN kwargs.complexity ELSE 2]

\* The outcome of one request: the exception raised if any, the object
\* constructed if any, and how many times the registry was looked up.
Raised(error) ==
    [raised |-> TRUE, error |-> error, made |-> NoForm, lookups |-> 1]

Returned(made) ==
    [raised |-> FALSE, error |-> "", made |-> made, lookups |-> 1]

\* ConcreteLifeFormFactory.create_life_form
create_life_form_fallback(registry, species_type, kwargs) ==
    IF lower(species_type) \notin DOMAIN registry
    THEN Returned(Fish)
    ELSE Returned(NewLifeForm(registry[lower(species_type)], kwargs))

create_life_form(registry, species_type, kwargs) ==
    LET key == lower(species_type)
    IN IF key \notin DOMAIN registry
       THEN Raised("ValueError: Unknown species type")
       ELSE IF key = "fish"
            THEN Returned(NewLifeForm(registry[key], NoKwargs))
            ELSE Returned(NewLifeForm(registry[key], kwargs))

\* LifeFormBuilder.build: a new factory at every call.
LifeFormBuilder_build(type, complexity, message) ==
    IF lower(type) = "fish"
    THEN create_life_form(ConcreteLifeFormFactory, type, NoKwargs)
    ELSE create_life_form(ConcreteLifeFormFactory, type,
                          Kwargs(complexity, message))

\* EvolutionStrategyFactory.create_strategy
create_strategy(strategies, strategy_type, kwargs) ==
    LET key == lower(strategy_type)
    IN IF key \notin DOMAIN strategies
       THEN Raised("ValueError: Unknown strategy type")
       ELSE IF key = "linear"
            THEN Returned(NewStrategy(strategies[key], NoKwargs))
            ELSE Returned(NewStrategy(strategies[key], kwargs))

\* One entry of the request history: the operation, the name asked for,
\* the registry it was looked up in before and after, and the outcome.
Request(op, name, before, after, outcome) ==
    [op |-> op, name |-> name, before |-> before, after |-> after,
     outcome |-> outcome]

FactoryIdle ==
    /\ f_registry = ConcreteLifeFormFactory
    /\ f_strategies = EvolutionStrategyFactory
    /\ f_log = <<>>

(* ------------------------ patterns/singleton.py ------------------------ *)

NumThreads == 2

Threads == 1..NumThreads

MaxCalls == 2

MaxClears == 1

\* Two classes whose metaclass is SingletonMeta: the __init__ of A
\* constructs B, the __init__ of B constructs no singleton.
Classes == {"A", "B"}

Nested(cls) == IF cls = "A" THEN "B" ELSE ""

\* One call in progress: the class called (none for clear_instances),
\* the position in the body, the object super().__call__ made (0: none
\* yet), and whether an exception is on its way out of the with block.
Frame(cls, at) == [cls |-> cls, pc |-> at, inst |-> 0, exc |-> FALSE]

\* if cls not in cls._instances (the test made outside the lock)
AfterFirstCheck(present) == IF present THEN "ret" ELSE "acquire"

\* if cls not in cls._instances (the test made under the lock)
AfterSecondCheck_always(present) == "construct"

AfterSecondCheck(present) == IF present THEN "release" ELSE "construct"

\* return cls._instances[cls]: a KeyError when the entry is not there.
ReturnValue(cls, registry) ==
    [cls |-> cls, raised |-> registry[cls] = 0, value |-> registry[cls]]

KeyError(cls) == [cls |-> cls, raised |-> TRUE, value |-> 0]

SingletonIdle ==
    /\ s_instances = [c \in Classes |-> 0]
    /\ s_lock = 0
    /\ s_stack = [t \in Threads |-> <<>>]
    /\ s_ctorRuns = [c \in Classes |-> 0]
    /\ s_returned = [t \in Threads |-> <<>>]
    /\ s_nextId = 1
    /\ s_clears = 0

TwiceIdle ==
    /\ e_obj = NoForm
    /\ e_orig = NoForm
    /\ e_first = NoForm
    /\ e_second = NoForm
    /\ e_pc = 0

(* ------------- core/stages.py: EvolutionPipeline in use ---------------- *)

MaxExtra == 2

\* init_stage of create_evolution_pipeline:
\* org if isinstance(org, Fish) else Fish()
init_stage(org) == Returned(IF org.kind = "Fish" THEN org ELSE Fish)

\* evolve_stage of create_evolution_pipeline and of build_pipeline:
\* org.evolve() if hasattr(org, 'evolve') else org
evolve_stage_unguarded(org) ==
    IF HasEvolve(org) THEN Returned(Evolve(org).next)
    ELSE Raised("AttributeError")

evolve_stage(org) ==
    IF HasEvolve(org) THEN Returned(Evolve(org).next) ELSE Returned(org)

\* stage(org), for a stage of either kind.
ApplyStage(stage, org) ==
    IF stage = "init_stage" THEN init_stage(org) ELSE evolve_stage(org)

\* n further add_stage(evolve_stage) calls on a pipeline.
EvolveStages(n) == [i \in 1..n |-> "evolve_stage"]

\* The stage list of the pipeline create_evolution_pipeline returns.
create_evolution_pipeline == <<"init_stage">> \o EvolveStages(4)

\* The stage list of the pipeline EvolutionEngine.build_pipeline returns
\* on a new engine.
build_pipeline == EvolveStages(4)

\* EvolutionPipeline.execute: reduce(lambda org, stage: stage(org), ...);
\* an exception in a stage ends the reduce.
RECURSIVE execute(_, _)
execute(pipeline, initial_organism) ==
    IF pipeline = <<>> THEN Returned(initial_organism)
    ELSE LET step == ApplyStage(Head(pipeline), initial_organism)
         IN IF step.raised THEN step
            ELSE execute(Tail(pipeline), step.made)

PipeIdle ==
    /\ p_org = NoForm
    /\ p_left = <<>>
    /\ p_applied = <<>>

(* ------------------ main.py: the alternative entry points -------------- *)

MaxEntries == 2

\* MessageMeta: the methods it adds to DynamicMessageClass.
get_greeting == <<"H", "e", "l", "l", "o">>

get_target == <<"W", "o", "r", "l", "d">>

get_separator_none == <<>>

get_separator == <<" ">>

\* compose_message: get_greeting() + get_separator() + get_target()
compose == get_greeting \o get_separator \o get_target

\* metaclass_approach: DynamicMessageClass().compose()
metaclass_approach == compose

\* organism.evolve().evolve().evolve().evolve()
EvolveFourTimes(org) ==
    Evolve(Evolve(Evolve(Evolve(org).next).next).next).next

\* functional_approach: the reduce over Fish(), four evolve calls and
\* reveal.
functional_approach == reveal(EvolveFourTimes(Fish))

\* builder_approach: LifeFormBuilder().of_type('fish').build(), four
\* evolve calls, reveal.
builder_approach ==
    reveal(EvolveFourTimes(LifeFormBuilder_build("fish", 1, <<>>).made))

\* alternative_main: the message it hands to print.
alternative_main ==
    generate(execute(create_evolution_pipeline, Fish).made, "composed")

AltIdle == alt = <<>>

(* -------------------------- utils/decorators.py ------------------------ *)

MaxAttempts == 4

\* What one call of the wrapped function does: return a value, or raise
\* an exception (an instance of Exception, the class retry catches).
Outcomes ==
    {[ok |-> TRUE, value |-> v] : v \in {"v1", "v2"}}
    \cup {[ok |-> FALSE, value |-> e] : e \in {"e1", "e2", "e3"}}

\* if attempt < max_attempts - 1: time.sleep(delay)
SleepsAfter_always(attempt, max_attempts) == TRUE

SleepsAfter(attempt, max_attempts) == attempt < max_attempts - 1

RetryIdle ==
    /\ rt_max = 1
    /\ rt_pc = "idle"
    /\ rt_attempt = 0
    /\ rt_last = ""
    /\ rt_calls = <<>>
    /\ rt_sleeps = <<>>
    /\ rt_result = ""

(* --------------- generators/message_generator.py: LazyMessage ---------- *)

MaxForces == 3

\* The strings the generator may return, the empty one included.
GenValues == {<<>>, H, HelloWorld}

LazyIdle ==
    /\ lz = LazyMessage(<<>>)
    /\ lz_genCalls = 0
    /\ lz_returns = <<>>

AuxIdle ==
    /\ RenderIdle /\ FactoryIdle /\ SingletonIdle /\ TwiceIdle /\ PipeIdle
    /\ AltIdle /\ RetryIdle /\ LazyIdle

Init == ProcInit /\ AuxIdle

(* ------------------------- main.py: the process ------------------------ *)

\* HelloWorldOrchestrator() through SingletonMeta.__call__, single-threaded:
\* __init__ runs only when the class is not in the registry, and then
\* sets _engine = None and prints its debug line.
OrchestratorInstances(inst) == inst \cup {"HelloWorldOrchestrator"}

OrchestratorEngine(inst, eng) ==
    IF "HelloWorldOrchestrator" \in inst THEN eng ELSE NoEngine

OrchestratorLines(inst, flag) ==
    IF "HelloWorldOrchestrator" \in inst THEN <<>>
    ELSE DebugLines(flag,
             <<Note("[DEBUG] HelloWorldOrchestrator initialized (Singleton)")>>)

\* main(debug) up to the call of app.run(): sets DEBUG, clears the
\* singleton registry, prints the banner, constructs the Application.
Main(d) ==
    /\ pc = "idle"
    /\ runs < MaxRuns
    /\ DEBUG' = d
    /\ debug_arg' = d
    /\ instances' = OrchestratorInstances({})
    /\ engine' = OrchestratorEngine({}, engine)
    /\ stdout' = stdout
                 \o DebugLines(d, <<Rule,
                        Note("HELLO WORLD EVOLUTION - DEBUG MODE"), Rule>>)
                 \o OrchestratorLines({}, d)
    /\ app' = [exists |-> TRUE, execution_count |-> 0]
    /\ outMark' = Len(stdout)
    /\ errMark' = Len(stderr)
    /\ pc' = "main"
    /\ UNCHANGED <<log_entries, caller, organism, current, stageIdx,
                   final_form, result, exception, stderr, exitCode, runs,
                   trace, results, logMark>>
    /\ orch' = NoOrchestrator
    /\ UNCHANGED <<calls, auxVars>>

\* Application() made by any other caller (HigherOrderHelloWorld's factory).
NewApplication ==
    /\ pc = "idle"
    /\ instances' = OrchestratorInstances(instances)
    /\ engine' = OrchestratorEngine(instances, engine)
    /\ stdout' = stdout \o OrchestratorLines(instances, DEBUG)
    /\ app' = [exists |-> TRUE, execution_count |-> 0]
    /\ UNCHANGED <<pc, DEBUG, debug_arg, log_entries, caller, organism,
                   current, stageIdx, final_form, result, exception, stderr,
                   exitCode, runs, trace, results, outMark, errMark, logMark>>
    /\ UNCHANGED <<calls, orch, auxVars>>

\* HelloWorldOrchestrator.set_debug on the existing orchestrator.
SetDebug(d) ==
    /\ pc = "idle"
    /\ "HelloWorldOrchestrator" \in instances
    /\ DEBUG' = d
    /\ UNCHANGED <<pc, debug_arg, instances, engine, log_entries, app, caller,
                   organism, current, stageIdx, final_form, result, exception,
                   stdout, stderr, exitCode, runs, trace, results, outMark,
                   errMark, logMark>>
    /\ UNCHANGED <<calls, orch, auxVars>>

create_initial_organism_leftover ==
    IF current.kind = "None" THEN Fish ELSE carry_message(Fish, current.msg)

\* HelloWorldOrchestrator.create_initial_organism: the factory's 'fish',
\* a new Fish at every call.
create_initial_organism == Fish

\* run_evolution_pipeline: if self._engine is None
NeedsEngine_always(e) == TRUE

NeedsEngine(e) == ~e.created

\* Application.execute -> say_hello -> ComplexityWrapper.pipeline_execute,
\* down to the first iteration of run_evolution's loop:
\* create_initial_organism, then run_evolution_pipeline, which builds the
\* engine on first use only.
BeginPipeline(who) ==
    LET fish == create_initial_organism
        build == NeedsEngine(engine)
    IN /\ runs < MaxRuns
       /\ runs' = runs + 1
       /\ app' = [app EXCEPT !.execution_count = @ + 1]
       /\ caller' = who
       /\ engine' = IF build THEN initialize_engine(DEBUG) ELSE engine
       /\ instances' = IF build THEN instances \cup {"EvolutionLogger"}
                       ELSE instances
       /\ log_entries' = IF build /\ "EvolutionLogger" \notin instances
                         THEN <<>> ELSE log_entries
       /\ stdout' = stdout
                    \o DebugLines(DEBUG, create_initial_organism_lines(fish))
                    \o DebugLines(DEBUG /\ build, initialize_engine_lines)
                    \o DebugLines(DEBUG,
                           <<BlankLine,
                             Note("[DEBUG] Starting evolution pipeline..."),
                             Rule>>)
       /\ organism' = fish
       /\ current' = fish
       /\ stageIdx' = 0
       /\ trace' = <<>>
       /\ final_form' = NoForm
       /\ result' = NoResult
       /\ exception' = ""
       /\ pc' = "loop"
       /\ logMark' = IF build /\ "EvolutionLogger" \notin instances
                     THEN 0 ELSE Len(log_entries)
       /\ UNCHANGED <<DEBUG, debug_arg, stderr, exitCode, results, outMark,
                      errMark>>
       /\ calls' = <<>>
       /\ orch' = [builds |-> orch.builds + (IF build THEN 1 ELSE 0),
                   runs |-> orch.runs + 1]
       /\ UNCHANGED auxVars

\* app.run() called by main: the try block calls self.execute().
Run ==
    /\ pc = "main"
    /\ BeginPipeline("run")

\* app.execute() called directly, as HigherOrderHelloWorld.run does.
Execute ==
    /\ pc = "idle"
    /\ app.exists
    /\ BeginPipeline("execute")

(* ------------- core/evolution_engine.py: run_evolution ----------------- *)

\* The history record of one loop iteration: the stage index, the organism
\* the iteration received, whether evolve was called on it, whether that
\* call raised, and the organism the iteration left in current.
Iteration(idx, recv, evolved, raised, ret) ==
    [stage |-> idx, recv |-> recv, evolved |-> evolved, raised |-> raised,
     ret |-> ret]

\* What the for loop does after an iteration that evolved: the next entry
\* of stages if there is one, else the loop is exhausted and current is
\* returned.
AfterEvolve_stop(idx) == "returned"

AfterEvolve(idx) == IF idx + 1 < Len(stages) THEN "loop" ELSE "returned"

\* LinearEvolutionStrategy.evolve: organism.evolve()
LinearEvolutionStrategy_evolve(org) == Evolve(org).next

\* AcceleratedEvolutionStrategy.evolve: up to acceleration_factor evolve
\* calls, ending early at a result that has no evolve method.
RECURSIVE AcceleratedEvolutionStrategy_evolve(_, _)
AcceleratedEvolutionStrategy_evolve(acceleration_factor, org) ==
    IF acceleration_factor <= 0 \/ ~HasEvolve(org) THEN org
    ELSE AcceleratedEvolutionStrategy_evolve(acceleration_factor - 1,
                                             Evolve(org).next)

\* strategy.evolve(organism), dispatched on the class of the strategy;
\* None has no evolve.
strategy_evolve(strategy, org) ==
    CASE strategy.kind = "LinearEvolutionStrategy" ->
             LinearEvolutionStrategy_evolve(org)
      [] strategy.kind = "AcceleratedEvolutionStrategy" ->
             AcceleratedEvolutionStrategy_evolve(strategy.acceleration_factor,
                                                 org)
      [] OTHER -> NoForm

\* next_form = current.evolve() in run_evolution: the call goes to the
\* organism; self._strategy is not consulted.
evolve_current_by_strategy(strategy, org) ==
    [self |-> Evolve(org).self, next |-> strategy_evolve(strategy, org)]

evolve_current(strategy, org) == Evolve(org)

\* One iteration of the for loop of run_evolution, with the return that
\* follows the last one: notify the observers, print the stage line when
\* the engine is in debug mode, then either evolve (and print the arrow
\* line) or, when current has no evolve method, break.
EvolutionStep ==
    /\ pc = "loop"
    /\ LET stage == stages[stageIdx + 1]
           staged == stdout
                     \o DebugLines(engine.debug, <<StageLine(stage, current)>>)
       IN /\ log_entries' =
                 notify_observers(engine.observers, current, stage, log_entries)
          /\ calls' = calls
                 \o notify_observers_calls(engine.observers, current, stage)
          /\ IF HasEvolve(current)
             THEN LET ev == evolve_current(engine.strategy, current)
                      next_form == ev.next
                  IN /\ stdout' = staged
                          \o DebugLines(engine.debug, <<EvolvedLine(next_form)>>)
                     /\ organism' = IF stageIdx = 0 THEN ev.self ELSE organism
                     /\ current' = next_form
                     /\ trace' = Append(trace,
                            Iteration(stageIdx, current, TRUE, FALSE, next_form))
                     /\ stageIdx' = stageIdx + 1
                     /\ pc' = AfterEvolve(stageIdx)
                     /\ final_form' = IF AfterEvolve(stageIdx) = "returned"
                                      THEN next_form ELSE final_form
             ELSE /\ stdout' = staged
                  /\ trace' = Append(trace,
                         Iteration(stageIdx, current, FALSE, FALSE, current))
                  /\ stageIdx' = stageIdx + 1
                  /\ pc' = "returned"
                  /\ final_form' = current
                  /\ UNCHANGED <<organism, current>>
    /\ UNCHANGED <<DEBUG, debug_arg, instances, engine, app, caller, result,
                   exception, stderr, exitCode, runs, results, outMark,
                   errMark, logMark>>
    /\ UNCHANGED <<orch, auxVars>>

\* Where an exception raised by current.evolve() goes: run_evolution,
\* run_evolution_pipeline, pipeline_execute, say_hello, the timeit wrapper
\* and execute have no handler, so it leaves Application.execute.
OnEvolveRaise_swallow == "loop"

OnEvolveRaise == "raised"

\* An iteration whose current.evolve() raises (an organism class whose
\* evolve fails): the observers were notified and the stage line printed
\* before the call; nothing after the call runs.
EvolutionStepRaises ==
    /\ pc = "loop"
    /\ HasEvolve(current)
    /\ LET stage == stages[stageIdx + 1]
       IN /\ log_entries' =
                 notify_observers(engine.observers, current, stage, log_entries)
          /\ calls' = calls
                 \o notify_observers_calls(engine.observers, current, stage)
          /\ stdout' = stdout
                 \o DebugLines(engine.debug, <<StageLine(stage, current)>>)
    /\ trace' = Append(trace, Iteration(stageIdx, current, TRUE, TRUE, NoForm))
    /\ stageIdx' = stageIdx + 1
    /\ exception' = "evolve failed"
    /\ pc' = OnEvolveRaise
    /\ UNCHANGED <<DEBUG, debug_arg, instances, engine, app, caller, organism,
                   current, final_form, result, stderr, exitCode, runs,
                   results, outMark, errMark, logMark>>
    /\ UNCHANGED <<orch, auxVars>>

(* ------------------- main.py: after run_evolution ---------------------- *)

\* The rest of run_evolution_pipeline and of pipeline_execute once
\* run_evolution has returned: extract_message, create_lazy_output, force;
\* then execute returns the string to its caller.
FinishPipeline ==
    /\ pc = "returned"
    /\ LET raw == generate(final_form, "composed")
           transformed == extract_message(final_form)
           forced == force(LazyMessage(transformed))
       IN /\ stdout' = stdout
                 \o DebugLines(DEBUG,
                        <<Rule,
                          Line("[DEBUG] Evolution complete! Final form", "",
                               final_form.kind, <<>>, <<>>),
                          BlankLine,
                          Note("[DEBUG] Extracting message from MessageBearer..."),
                          Line("[DEBUG] Raw message", "", "", <<>>, raw),
                          Line("[DEBUG] Transformed message", "", "", <<>>,
                               transformed)>>)
          /\ result' = [has |-> TRUE, value |-> forced.value]
          /\ results' = Append(results, forced.value)
    /\ pc' = IF caller = "run" THEN "executed" ELSE "idle"
    /\ UNCHANGED <<DEBUG, debug_arg, instances, engine, log_entries, app,
                   caller, organism, current, stageIdx, final_form, exception,
                   stderr, exitCode, runs, trace, outMark, errMark, logMark>>
    /\ UNCHANGED <<calls, orch, auxVars>>

\* Application.run after execute returned: print(result).
RunPrint ==
    /\ pc = "executed"
    /\ stdout' = Append(stdout, ResultLine(result.value))
    /\ pc' = "after_run"
    /\ UNCHANGED <<DEBUG, debug_arg, instances, engine, log_entries, app,
                   caller, organism, current, stageIdx, final_form, result,
                   exception, stderr, exitCode, runs, trace, results, outMark,
                   errMark, logMark>>
    /\ UNCHANGED <<calls, orch, auxVars>>

\* main after app.run() returned: the closing banner in debug mode.
MainEnd ==
    /\ pc = "after_run"
    /\ stdout' = stdout
                 \o DebugLines(DEBUG,
                        <<BlankLine, Rule, Note("EVOLUTION COMPLETE"), Rule>>)
    /\ pc' = "idle"
    /\ UNCHANGED <<DEBUG, debug_arg, instances, engine, log_entries, app,
                   caller, organism, current, stageIdx, final_form, result,
                   exception, stderr, exitCode, runs, trace, results, outMark,
                   errMark, logMark>>
    /\ UNCHANGED <<calls, orch, auxVars>>

RunExcept_stdout ==
    /\ pc = "raised"
    /\ caller = "run"
    /\ stdout' = Append(stdout,
                     Line("Error in evolution", "", "", <<>>, <<exception>>))
    /\ exitCode' = 1
    /\ pc' = "exit"
    /\ UNCHANGED <<DEBUG, debug_arg, instances, engine, log_entries, app,
                   caller, organism, current, stageIdx, final_form, result,
                   exception, stderr, runs, trace, results, outMark, errMark,
                   logMark>>
    /\ UNCHANGED <<calls, orch, auxVars>>

\* Application.run's except clause: the message goes to standard error and
\* the exception is raised again; main has no handler, so the interpreter
\* ends the process with status 1.
RunExcept ==
    /\ pc = "raised"
    /\ caller = "run"
    /\ stderr' = Append(stderr,
                     Line("Error in evolution", "", "", <<>>, <<exception>>))
    /\ exitCode' = 1
    /\ pc' = "exit"
    /\ UNCHANGED <<DEBUG, debug_arg, instances, engine, log_entries, app,
                   caller, organism, current, stageIdx, final_form, result,
                   exception, stdout, runs, trace, results, outMark, errMark,
                   logMark>>
    /\ UNCHANGED <<calls, orch, auxVars>>

\* The same exception leaving a direct app.execute() call: no handler
\* anywhere (apply_with_context has only a finally), status 1.
ExecuteRaises ==
    /\ pc = "raised"
    /\ caller = "execute"
    /\ exitCode' = 1
    /\ pc' = "exit"
    /\ UNCHANGED <<DEBUG, debug_arg, instances, engine, log_entries, app,
                   caller, organism, current, stageIdx, final_form, result,
                   exception, stdout, stderr, runs, trace, results, outMark,
                   errMark, logMark>>
    /\ UNCHANGED <<calls, orch, auxVars>>

(* --------------------------- specifications ---------------------------- *)

\* The program as it is: no evolve of the repository raises.
Next ==
    \/ \E d \in BOOLEAN : Main(d)
    \/ NewApplication
    \/ \E d \in BOOLEAN : SetDebug(d)
    \/ Run
    \/ Execute
    \/ EvolutionStep
    \/ FinishPipeline
    \/ RunPrint
    \/ MainEnd

Spec == Init /\ [][Next]_vars

\* The same program; a loop that has begun goes on to its next iteration
\* (one thread, no suspension point inside run_evolution).
FairSpec == Init /\ [][Next]_vars /\ WF_vars(EvolutionStep)

\* The program with an organism class whose evolve may raise.
FaultNext ==
    \/ Next
    \/ EvolutionStepRaises
    \/ RunExcept
    \/ ExecuteRaises

FaultSpec == Init /\ [][FaultNext]_vars

\* EvolutionEngine.run_evolution called directly on any organism: every
\* class of the chain, carrying any fragment (carry_message is public).
InitialOrganisms ==
    {carry_message(LifeFormInit(k, c), s) :
        k \in {"Fish", "Amphibian", "Reptile", "Dinosaur"},
        c \in Complexities, s \in Strings}
    \cup {MessageBearer(s) : s \in Strings}

EvolveInit ==
    /\ pc = "loop"
    /\ DEBUG \in BOOLEAN
    /\ debug_arg = FALSE
    /\ instances = {"HelloWorldOrchestrator", "EvolutionLogger"}
    /\ engine = initialize_engine(DEBUG)
    /\ log_entries = <<>>
    /\ app = [exists |-> FALSE, execution_count |-> 0]
    /\ caller = "execute"
    /\ organism \in InitialOrganisms
    /\ current = organism
    /\ stageIdx = 0
    /\ final_form = NoForm
    /\ result = NoResult
    /\ exception = ""
    /\ stdout = <<>>
    /\ stderr = <<>>
    /\ exitCode = 0
    /\ runs = 1
    /\ trace = <<>>
    /\ results = <<>>
    /\ outMark = 0
    /\ errMark = 0
    /\ logMark = 0
    /\ calls = <<>>
    /\ orch = [builds |-> 1, runs |-> 1]
    /\ AuxIdle

EvolveNext == EvolutionStep

EvolveSpec == EvolveInit /\ [][EvolveNext]_vars

\* The Result Extractor applied twice to any input: a str, or a
\* MessageBearer carrying it.
RenderInit ==
    /\ ProcInit
    /\ rsrc \in {Str(x) : x \in Strings} \cup {MessageBearer(x) : x \in Strings}
    /\ rpc = "input"
    /\ r1 = <<>>
    /\ r2 = <<>>
    /\ FactoryIdle /\ SingletonIdle /\ TwiceIdle /\ PipeIdle /\ AltIdle
    /\ RetryIdle /\ LazyIdle

RenderOnce ==
    /\ rpc = "input"
    /\ r1' = extract_message(rsrc)
    /\ rpc' = "once"
    /\ UNCHANGED <<rsrc, r2>>
    /\ UNCHANGED <<procVars, factoryVars, singVars, twiceVars, pipeVars,
                   altVars, retryVars, lazyVars>>

RenderTwice ==
    /\ rpc = "once"
    /\ r2' = extract_message(Str(r1))
    /\ rpc' = "twice"
    /\ UNCHANGED <<rsrc, r1>>
    /\ UNCHANGED <<procVars, factoryVars, singVars, twiceVars, pipeVars,
                   altVars, retryVars, lazyVars>>

RenderNext == RenderOnce \/ RenderTwice

RenderSpec == RenderInit /\ [][RenderNext]_vars

(* ---------------------- the factories in use --------------------------- *)

FactoryInit ==
    /\ ProcInit
    /\ RenderIdle /\ FactoryIdle /\ SingletonIdle /\ TwiceIdle /\ PipeIdle
    /\ AltIdle /\ RetryIdle /\ LazyIdle

\* Everything the factory actions leave alone.
factoryRest ==
    <<procVars, renderVars, singVars, twiceVars, pipeVars, altVars,
      retryVars, lazyVars>>

\* factory.register(name, cls) on one long-lived factory.
Register(name, class) ==
    /\ f_registry' = register(f_registry, name, class)
    /\ UNCHANGED <<f_strategies, f_log>>
    /\ UNCHANGED factoryRest

\* EvolutionStrategyFactory.register_strategy(name, cls)
RegisterStrategy(name, class) ==
    /\ f_strategies' = register(f_strategies, name, class)
    /\ UNCHANGED <<f_registry, f_log>>
    /\ UNCHANGED factoryRest

\* factory.create_life_form(name, **kwargs) on that factory.
CreateLifeForm(name, kwargs) ==
    /\ Len(f_log) < MaxRequests
    /\ f_log' = Append(f_log,
           Request("create_life_form", name, f_registry, f_registry,
                   create_life_form(f_registry, name, kwargs)))
    /\ UNCHANGED <<f_registry, f_strategies>>
    /\ UNCHANGED factoryRest

\* LifeFormBuilder().with_complexity(c).with_message(m).of_type(t).build()
Build(type, complexity, message) ==
    /\ Len(f_log) < MaxRequests
    /\ f_log' = Append(f_log,
           Request("build", type, ConcreteLifeFormFactory,
                   ConcreteLifeFormFactory,
                   LifeFormBuilder_build(type, complexity, message)))
    /\ UNCHANGED <<f_registry, f_strategies>>
    /\ UNCHANGED factoryRest

\* EvolutionStrategyFactory.create_strategy(name, **kwargs)
CreateStrategy(name, kwargs) ==
    /\ Len(f_log) < MaxRequests
    /\ f_log' = Append(f_log,
           Request("create_strategy", name, f_strategies, f_strategies,
                   create_strategy(f_strategies, name, kwargs)))
    /\ UNCHANGED <<f_registry, f_strategies>>
    /\ UNCHANGED factoryRest

FactoryNext ==
    \/ \E n \in {"Raptor"}, c \in {"Reptile", "Dinosaur"} : Register(n, c)
    \/ \E n \in {"Warp"} :
           RegisterStrategy(n, "AcceleratedEvolutionStrategy")
    \/ \E n \in SpeciesNames, k \in KwargsSet : CreateLifeForm(n, k)
    \/ \E n \in SpeciesNames, c \in Complexities, m \in {<<>>, H} :
           Build(n, c, m)
    \/ \E n \in StrategyNames, k \in KwargsSet : CreateStrategy(n, k)

FactorySpec == FactoryInit /\ [][FactoryNext]_vars

(* ------------------ patterns/singleton.py in use ----------------------- *)

singRest ==
    <<procVars, renderVars, factoryVars, twiceVars, pipeVars, altVars,
      retryVars, lazyVars>>

Top(t) == Head(s_stack[t])

\* The stack of thread t with its innermost frame moved to position at.
Goto(t, at) ==
    [s_stack EXCEPT ![t] = <<[Top(t) EXCEPT !.pc = at]>> \o Tail(@)]

At(t, at) == s_stack[t] # <<>> /\ Top(t).pc = at

\* Thread t calls cls(): SingletonMeta.__call__ begins.
Call(t, cls) ==
    /\ s_stack[t] = <<>>
    /\ Len(s_returned[t]) < MaxCalls
    /\ s_stack' = [s_stack EXCEPT ![t] = <<Frame(cls, "check1")>>]
    /\ UNCHANGED <<s_instances, s_lock, s_ctorRuns, s_returned, s_nextId,
                   s_clears>>
    /\ UNCHANGED singRest

FirstCheck(t) ==
    /\ At(t, "check1")
    /\ s_stack' = Goto(t, AfterFirstCheck(s_instances[Top(t).cls] # 0))
    /\ UNCHANGED <<s_instances, s_lock, s_ctorRuns, s_returned, s_nextId,
                   s_clears>>
    /\ UNCHANGED singRest

\* with cls._lock: threading.Lock is not reentrant, so the call waits
\* while any thread, the calling one included, holds it.
Acquire(t) ==
    /\ At(t, "acquire")
    /\ s_lock = 0
    /\ s_lock' = t
    /\ s_stack' = Goto(t, "check2")
    /\ UNCHANGED <<s_instances, s_ctorRuns, s_returned, s_nextId, s_clears>>
    /\ UNCHANGED singRest

SecondCheck(t) ==
    /\ At(t, "check2")
    /\ s_stack' = Goto(t, AfterSecondCheck(s_instances[Top(t).cls] # 0))
    /\ UNCHANGED <<s_instances, s_lock, s_ctorRuns, s_returned, s_nextId,
                   s_clears>>
    /\ UNCHANGED singRest

\* instance = super().__call__(*args, **kwargs): a new object, and its
\* __init__ runs; an __init__ that constructs another singleton calls
\* SingletonMeta.__call__ again from inside this one.
Construct(t) ==
    /\ At(t, "construct")
    /\ LET f == Top(t)
           made == [f EXCEPT !.inst = s_nextId]
       IN /\ s_nextId' = s_nextId + 1
          /\ s_ctorRuns' = [s_ctorRuns EXCEPT ![f.cls] = @ + 1]
          /\ s_stack' =
                IF Nested(f.cls) = ""
                THEN [s_stack EXCEPT
                         ![t] = <<[made EXCEPT !.pc = "insert"]>> \o Tail(@)]
                ELSE [s_stack EXCEPT
                         ![t] = <<Frame(Nested(f.cls), "check1"),
                                  [made EXCEPT !.pc = "init"]>> \o Tail(@)]
    /\ UNCHANGED <<s_instances, s_lock, s_returned, s_clears>>
    /\ UNCHANGED singRest

\* cls._instances[cls] = instance
Insert(t) ==
    /\ At(t, "insert")
    /\ s_instances' = [s_instances EXCEPT ![Top(t).cls] = Top(t).inst]
    /\ s_stack' = Goto(t, "release")
    /\ UNCHANGED <<s_lock, s_ctorRuns, s_returned, s_nextId, s_clears>>
    /\ UNCHANGED singRest

\* The end of the with block, left normally or by an exception.
Release(t) ==
    /\ At(t, "release")
    /\ s_lock' = 0
    /\ s_stack' = Goto(t, IF Top(t).exc THEN "raise" ELSE "ret")
    /\ UNCHANGED <<s_instances, s_ctorRuns, s_returned, s_nextId, s_clears>>
    /\ UNCHANGED singRest

\* return cls._instances[cls], or the exception leaving the call.  The
\* value goes to the caller: the program, or the __init__ that made the
\* call, which then returns (or lets the exception through).
Return(t) ==
    /\ s_stack[t] # <<>>
    /\ Top(t).pc \in {"ret", "raise"}
    /\ LET f == Top(t)
           out == IF f.pc = "raise" THEN KeyError(f.cls)
                  ELSE ReturnValue(f.cls, s_instances)
           outer == Tail(s_stack[t])
       IN IF outer = <<>>
          THEN /\ s_stack' = [s_stack EXCEPT ![t] = <<>>]
               /\ s_returned' = [s_returned EXCEPT ![t] = Append(@, out)]
          ELSE /\ s_stack' =
                     [s_stack EXCEPT ![t] =
                         <<IF out.raised
                           THEN [Head(outer) EXCEPT !.pc = "release",
                                                    !.exc = TRUE]
                           ELSE [Head(outer) EXCEPT !.pc = "insert"]>>
                         \o Tail(outer)]
               /\ UNCHANGED s_returned
    /\ UNCHANGED <<s_instances, s_lock, s_ctorRuns, s_nextId, s_clears>>
    /\ UNCHANGED singRest

\* SingletonMeta.clear_instances: with mcs._lock
ClearAcquire(t) ==
    /\ s_stack[t] = <<>>
    /\ s_clears < MaxClears
    /\ s_lock = 0
    /\ s_lock' = t
    /\ s_clears' = s_clears + 1
    /\ s_stack' = [s_stack EXCEPT ![t] = <<Frame("", "clear")>>]
    /\ UNCHANGED <<s_instances, s_ctorRuns, s_returned, s_nextId>>
    /\ UNCHANGED singRest

\* mcs._instances.clear()
ClearAll(t) ==
    /\ At(t, "clear")
    /\ s_instances' = [c \in Classes |-> 0]
    /\ s_stack' = Goto(t, "cleared")
    /\ UNCHANGED <<s_lock, s_ctorRuns, s_returned, s_nextId, s_clears>>
    /\ UNCHANGED singRest

ClearRelease(t) ==
    /\ At(t, "cleared")
    /\ s_lock' = 0
    /\ s_stack' = [s_stack EXCEPT ![t] = <<>>]
    /\ UNCHANGED <<s_instances, s_ctorRuns, s_returned, s_nextId, s_clears>>
    /\ UNCHANGED singRest

SingletonInit ==
    /\ ProcInit
    /\ RenderIdle /\ FactoryIdle /\ SingletonIdle /\ TwiceIdle /\ PipeIdle
    /\ AltIdle /\ RetryIdle /\ LazyIdle

\* Threads constructing singletons; nobody clears the registry.
SingletonNext ==
    \E t \in Threads :
        \/ \E c \in Classes : Call(t, c)
        \/ FirstCheck(t)
        \/ Acquire(t)
        \/ SecondCheck(t)
        \/ Construct(t)
        \/ Insert(t)
        \/ Release(t)
        \/ Return(t)

SingletonSpec == SingletonInit /\ [][SingletonNext]_vars

\* The same threads, any of which may also call clear_instances.
SingletonClearNext ==
    \/ SingletonNext
    \/ \E t \in Threads : ClearAcquire(t) \/ ClearAll(t) \/ ClearRelease(t)

SingletonClearSpec == SingletonInit /\ [][SingletonClearNext]_vars

(* ------------------- evolve called twice on one organism --------------- *)

twiceRest ==
    <<procVars, renderVars, factoryVars, singVars, pipeVars, altVars,
      retryVars, lazyVars>>

\* Any organism that has an evolve method.
TwiceInit ==
    /\ ProcInit
    /\ RenderIdle /\ FactoryIdle /\ SingletonIdle /\ PipeIdle /\ AltIdle
    /\ RetryIdle /\ LazyIdle
    /\ e_orig \in {o \in InitialOrganisms : HasEvolve(o)}
    /\ e_obj = e_orig
    /\ e_first = NoForm
    /\ e_second = NoForm
    /\ e_pc = 0

\* first = organism.evolve()
EvolveOnce ==
    /\ e_pc = 0
    /\ e_obj' = Evolve(e_obj).self
    /\ e_first' = Evolve(e_obj).next
    /\ e_pc' = 1
    /\ UNCHANGED <<e_orig, e_second>>
    /\ UNCHANGED twiceRest

\* second = organism.evolve(), on the same object
EvolveAgain ==
    /\ e_pc = 1
    /\ e_obj' = Evolve(e_obj).self
    /\ e_second' = Evolve(e_obj).next
    /\ e_pc' = 2
    /\ UNCHANGED <<e_orig, e_first>>
    /\ UNCHANGED twiceRest

TwiceNext == EvolveOnce \/ EvolveAgain

TwiceSpec == TwiceInit /\ [][TwiceNext]_vars

(* ---------------- EvolutionPipeline.execute, stage by stage ------------ *)

pipeRest ==
    <<procVars, renderVars, factoryVars, singVars, twiceVars, altVars,
      retryVars, lazyVars>>

\* execute called on any organism, on a pipeline of either builder with up
\* to MaxExtra further evolve stages added to it.
PipeInit ==
    /\ ProcInit
    /\ RenderIdle /\ FactoryIdle /\ SingletonIdle /\ TwiceIdle /\ AltIdle
    /\ RetryIdle /\ LazyIdle
    /\ p_org \in InitialOrganisms
    /\ p_left \in {base \o EvolveStages(n) :
                      base \in {create_evolution_pipeline, build_pipeline},
                      n \in 0..MaxExtra}
    /\ p_applied = <<>>

\* How many evolve stages the execution has applied so far.
EvolveIndex ==
    Cardinality({i \in 1..Len(p_applied) :
                    p_applied[i].stage = "evolve_stage"})

\* One step of the reduce: the next stage applied to the accumulator.
PipelineStep ==
    /\ p_left # <<>>
    /\ LET step == ApplyStage(Head(p_left), p_org)
       IN /\ p_applied' = Append(p_applied,
                 [stage |-> Head(p_left), index |-> EvolveIndex,
                  before |-> p_org, raised |-> step.raised,
                  after |-> step.made])
          /\ p_org' = step.made
          /\ p_left' = IF step.raised THEN <<>> ELSE Tail(p_left)
    /\ UNCHANGED pipeRest

PipeNext == PipelineStep

PipeSpec == PipeInit /\ [][PipeNext]_vars

(* ------------------ the alternative entry points in use ---------------- *)

altRest ==
    <<renderVars, factoryVars, singVars, twiceVars, pipeVars, retryVars,
      lazyVars>>

\* An entry point that returns its string and prints nothing.
CallEntry(entry, value) ==
    /\ pc = "idle"
    /\ Len(alt) < MaxEntries
    /\ alt' = Append(alt, [entry |-> entry, value |-> value])
    /\ UNCHANGED procVars
    /\ UNCHANGED altRest

FunctionalApproach == CallEntry("functional_approach", functional_approach)

BuilderApproach == CallEntry("builder_approach", builder_approach)

MetaclassApproach == CallEntry("metaclass_approach", metaclass_approach)

\* alternative_main: the first attempt of its retry wrapper returns, so
\* the body runs once; it prints the message and returns None.
AlternativeMain ==
    /\ pc = "idle"
    /\ Len(alt) < MaxEntries
    /\ alt' = Append(alt, [entry |-> "alternative_main",
                           value |-> alternative_main])
    /\ stdout' = Append(stdout, ResultLine(alternative_main))
    /\ UNCHANGED <<pc, DEBUG, debug_arg, instances, engine, log_entries, app,
                   caller, organism, current, stageIdx, final_form, result,
                   exception, stderr, exitCode, runs, trace, results, outMark,
                   errMark, logMark, calls, orch>>
    /\ UNCHANGED altRest

\* The program with every entry point: Application.execute (Execute),
\* HigherOrderHelloWorld.run (NewApplication, then Execute) and main are
\* in Next.
EntryNext ==
    \/ Next
    \/ FunctionalApproach
    \/ BuilderApproach
    \/ MetaclassApproach
    \/ AlternativeMain

EntrySpec == Init /\ [][EntryNext]_vars

(* -------------- run_evolution on an engine with any observers ---------- *)

MaxObservers == 3

Observers == {"EvolutionLogger", "SilentObserver"}

\* The engine initialize_engine built, in the hands of a caller that
\* attaches and detaches observers between calls of run_evolution.
ObserverInit ==
    /\ pc = "engine"
    /\ DEBUG \in BOOLEAN
    /\ debug_arg = FALSE
    /\ instances = {"HelloWorldOrchestrator", "EvolutionLogger"}
    /\ engine = initialize_engine(DEBUG)
    /\ log_entries = <<>>
    /\ app = [exists |-> FALSE, execution_count |-> 0]
    /\ caller = "engine"
    /\ organism = NoForm
    /\ current = NoForm
    /\ stageIdx = 0
    /\ final_form = NoForm
    /\ result = NoResult
    /\ exception = ""
    /\ stdout = <<>>
    /\ stderr = <<>>
    /\ exitCode = 0
    /\ runs = 0
    /\ trace = <<>>
    /\ results = <<>>
    /\ outMark = 0
    /\ errMark = 0
    /\ logMark = 0
    /\ calls = <<>>
    /\ orch = [builds |-> 1, runs |-> 0]
    /\ AuxIdle

\* engine.attach(observer)
AttachObserver(observer) ==
    /\ pc = "engine"
    /\ Len(engine.observers) < MaxObservers
    /\ engine' = attach_observer(engine, observer)
    /\ UNCHANGED <<pc, DEBUG, debug_arg, instances, log_entries, app, caller,
                   organism, current, stageIdx, final_form, result, exception,
                   stdout, stderr, exitCode, runs, trace, results, outMark,
                   errMark, logMark, calls>>
    /\ UNCHANGED <<orch, auxVars>>

\* engine.detach(observer), for an observer that is attached (list.remove
\* raises ValueError otherwise and the list stays as it is).
DetachObserver(observer) ==
    /\ pc = "engine"
    /\ \E i \in 1..Len(engine.observers) : engine.observers[i] = observer
    /\ engine' = [engine EXCEPT
                     !.observers = detach_observer(@, observer)]
    /\ UNCHANGED <<pc, DEBUG, debug_arg, instances, log_entries, app, caller,
                   organism, current, stageIdx, final_form, result, exception,
                   stdout, stderr, exitCode, runs, trace, results, outMark,
                   errMark, logMark, calls>>
    /\ UNCHANGED <<orch, auxVars>>

\* engine.run_evolution(Fish()) is called: the loop is about to begin.
StartEvolution ==
    /\ pc = "engine"
    /\ runs < MaxRuns
    /\ runs' = runs + 1
    /\ organism' = Fish
    /\ current' = Fish
    /\ stageIdx' = 0
    /\ trace' = <<>>
    /\ calls' = <<>>
    /\ final_form' = NoForm
    /\ logMark' = Len(log_entries)
    /\ pc' = "loop"
    /\ UNCHANGED <<DEBUG, debug_arg, instances, engine, log_entries, app,
                   caller, result, exception, stdout, stderr, exitCode,
                   results, outMark, errMark>>
    /\ UNCHANGED <<orch, auxVars>>

\* run_evolution has returned to that caller.
EndEvolution ==
    /\ pc = "returned"
    /\ caller = "engine"
    /\ pc' = "engine"
    /\ UNCHANGED <<DEBUG, debug_arg, instances, engine, log_entries, app,
                   caller, organism, current, stageIdx, final_form, result,
                   exception, stdout, stderr, exitCode, runs, trace, results,
                   outMark, errMark, logMark, calls>>
    /\ UNCHANGED <<orch, auxVars>>

ObserverNext ==
    \/ \E o \in Observers : AttachObserver(o)
    \/ \E o \in Observers : DetachObserver(o)
    \/ StartEvolution
    \/ EvolutionStep
    \/ EndEvolution

ObserverSpec == ObserverInit /\ [][ObserverNext]_vars

(* -------------- run_evolution on an engine with any strategy ----------- *)

MaxFactor == 3

\* strategy=None
NoStrategy == [kind |-> "None"]

LinearStrategy == NewStrategy("LinearEvolutionStrategy", NoKwargs)

AcceleratedStrategy(acceleration_factor) ==
    NewStrategy("AcceleratedEvolutionStrategy",
                Kwargs(acceleration_factor, <<>>))

\* What a caller may hand to EvolutionEngine(strategy=...) or to
\* set_strategy.
Strategies ==
    {NoStrategy, LinearStrategy}
    \cup {AcceleratedStrategy(f) : f \in 0..MaxFactor}

\* EvolutionEngine.__init__: strategy or LinearEvolutionStrategy()
StrategyOrDefault(strategy) ==
    IF strategy = NoStrategy THEN LinearStrategy ELSE strategy

\* EvolutionEngine.set_strategy
set_strategy(e, strategy) == [e EXCEPT !.strategy = strategy]

\* An engine constructed with any strategy, the two observers of
\* initialize_engine attached to it.
StrategyInit ==
    /\ pc = "engine"
    /\ DEBUG \in BOOLEAN
    /\ debug_arg = FALSE
    /\ instances = {"HelloWorldOrchestrator", "EvolutionLogger"}
    /\ engine \in
          {attach_observer(
               attach_observer(EvolutionEngine(StrategyOrDefault(s), DEBUG),
                               "EvolutionLogger"),
               "SilentObserver") : s \in Strategies}
    /\ log_entries = <<>>
    /\ app = [exists |-> FALSE, execution_count |-> 0]
    /\ caller = "engine"
    /\ organism = NoForm
    /\ current = NoForm
    /\ stageIdx = 0
    /\ final_form = NoForm
    /\ result = NoResult
    /\ exception = ""
    /\ stdout = <<>>
    /\ stderr = <<>>
    /\ exitCode = 0
    /\ runs = 0
    /\ trace = <<>>
    /\ results = <<>>
    /\ outMark = 0
    /\ errMark = 0
    /\ logMark = 0
    /\ calls = <<>>
    /\ orch = [builds |-> 1, runs |-> 0]
    /\ AuxIdle

\* engine.set_strategy(strategy), before a run, between two iterations of
\* one, or after it.
SetStrategy(strategy) ==
    /\ pc \in {"engine", "loop"}
    /\ engine' = set_strategy(engine, strategy)
    /\ UNCHANGED <<pc, DEBUG, debug_arg, instances, log_entries, app, caller,
                   organism, current, stageIdx, final_form, result, exception,
                   stdout, stderr, exitCode, runs, trace, results, outMark,
                   errMark, logMark, calls>>
    /\ UNCHANGED <<orch, auxVars>>

StrategyNext ==
    \/ \E s \in Strategies : SetStrategy(s)
    \/ StartEvolution
    \/ EvolutionStep
    \/ EndEvolution

StrategySpec == StrategyInit /\ [][StrategyNext]_vars

(* ------------------------- a retry wrapper called ---------------------- *)

retryRest ==
    <<procVars, renderVars, factoryVars, singVars, twiceVars, pipeVars,
      altVars, lazyVars>>

\* The wrapper of retry(max_attempts) is called, max_attempts >= 1:
\* last_exception = None and the loop begins.
RetryInit ==
    /\ ProcInit
    /\ RenderIdle /\ FactoryIdle /\ SingletonIdle /\ TwiceIdle /\ PipeIdle
    /\ AltIdle /\ LazyIdle
    /\ rt_max \in 1..MaxAttempts
    /\ rt_pc = "call"
    /\ rt_attempt = 0
    /\ rt_last = ""
    /\ rt_calls = <<>>
    /\ rt_sleeps = <<>>
    /\ rt_result = ""

\* One iteration of the loop: func is called; its value is returned, or
\* its exception is kept, the wrapper sleeps if this was not the last
\* attempt, and when range(max_attempts) is exhausted last_exception is
\* raised.
Attempt(outcome) ==
    /\ rt_pc = "call"
    /\ rt_attempt < rt_max
    /\ rt_calls' = Append(rt_calls, outcome)
    /\ IF outcome.ok
       THEN /\ rt_result' = outcome.value
            /\ rt_pc' = "returned"
            /\ UNCHANGED <<rt_attempt, rt_last, rt_sleeps>>
       ELSE /\ rt_last' = outcome.value
            /\ rt_sleeps' = IF SleepsAfter(rt_attempt, rt_max)
                            THEN Append(rt_sleeps, Len(rt_calls) + 1)
                            ELSE rt_sleeps
            /\ rt_attempt' = rt_attempt + 1
            /\ IF rt_attempt + 1 < rt_max
               THEN rt_pc' = "call" /\ rt_result' = rt_result
               ELSE rt_pc' = "raised" /\ rt_result' = outcome.value
    /\ UNCHANGED rt_max
    /\ UNCHANGED retryRest

RetryNext == \E o \in Outcomes : Attempt(o)

RetrySpec == RetryInit /\ [][RetryNext]_vars

(* ------------------------- one LazyMessage in use ---------------------- *)

lazyRest ==
    <<procVars, renderVars, factoryVars, singVars, twiceVars, pipeVars,
      altVars, retryVars>>

\* LazyMessage(generator): nothing cached, the generator not yet invoked.
LazyInit ==
    /\ ProcInit
    /\ RenderIdle /\ FactoryIdle /\ SingletonIdle /\ TwiceIdle /\ PipeIdle
    /\ AltIdle /\ RetryIdle
    /\ lz \in {LazyMessage(v) : v \in GenValues}
    /\ lz_genCalls = 0
    /\ lz_returns = <<>>

\* str(lazy) or lazy.force(), which is str(self); next is what the
\* generator will return the time after, whether or not it is invoked.
ForceCall(call, next) ==
    /\ Len(lz_returns) < MaxForces
    /\ lz_genCalls' = lz_genCalls + (IF NeedsGenerator(lz) THEN 1 ELSE 0)
    /\ lz_returns' = Append(lz_returns,
                            [call |-> call, value |-> force(lz).value])
    /\ lz' = [force(lz).lazy EXCEPT !.generator = next]
    /\ UNCHANGED lazyRest

LazyNext == \E c \in {"str", "force"}, v \in GenValues : ForceCall(c, v)

LazySpec == LazyInit /\ [][LazyNext]_vars

(* ------------------------------ claims --------------------------------- *)

\* What the main() call in progress (or the last one) has written to
\* standard output and standard error.
Out == SubSeq(stdout, outMark + 1, Len(stdout))
Err == SubSeq(stderr, errMark + 1, Len(stderr))

\* Inside the main() call, having come through Application.run.
InRun(where) == caller = "run" /\ pc \in where

\* C1: whenever run_evolution, started on the default Fish carrying "H",
\* has returned, its value is a MessageBearer whose reveal() is
\* "Hello World".
C1_RunYieldsHelloWorld ==
    final_form.kind # "None" =>
        /\ trace[1].recv = Fish
        /\ final_form.kind = "MessageBearer"
        /\ reveal(final_form) = HelloWorld

C1_Witness ==
    /\ pc = "returned"
    /\ trace # <<>>
    /\ trace[1].recv = Fish
    /\ final_form.kind = "MessageBearer"

\* The organism class found at each stage index of a run seeded by a Fish.
FormAt == <<"Fish", "Amphibian", "Reptile", "Dinosaur", "MessageBearer">>

\* The rule table, by the class of the organism the iteration received
\* with fragment s: what the iteration leaves in current.
RuleHolds(r) ==
    LET s == r.recv.msg
    IN CASE r.recv.kind = "Fish" ->
               r.ret.kind = "Amphibian" /\ r.ret.msg = s \o ello
         [] r.recv.kind = "Amphibian" ->
               r.ret.kind = "Reptile" /\ r.ret.msg = s \o Space
         [] r.recv.kind = "Reptile" ->
               r.ret.kind = "Dinosaur" /\ r.ret.msg = s \o World
         [] r.recv.kind = "Dinosaur" ->
               r.ret.kind = "MessageBearer" /\ r.ret.msg = s
         [] r.recv.kind = "MessageBearer" ->
               r.ret.kind = "MessageBearer" /\ r.ret.msg = s

\* C2: for every fragment s, every iteration follows the rule table
\* (Fish: s + "ello", Amphibian: s + " ", Reptile: s + "World", Dinosaur:
\* s, MessageBearer: s), and in a run seeded by a Fish the class at stage
\* index i is the table's (0 Fish, 1 Amphibian, 2 Reptile, 3 Dinosaur,
\* 4 MessageBearer).
C2_RuleTable ==
    \A i \in DOMAIN trace :
        /\ RuleHolds(trace[i])
        /\ trace[1].recv.kind = "Fish" =>
               /\ trace[i].stage = i - 1
               /\ trace[i].recv.kind = FormAt[i]

C2_Witness ==
    /\ Len(trace) = 5
    /\ trace[1].recv.kind = "Fish"
    /\ trace[1].recv.msg = <<"d", " ">>
    /\ trace[5].ret = MessageBearer(<<"d", " ">> \o ello \o Space \o World)

\* C3 as stated: a run from the seed invokes the transformation five
\* times, at stage indices 0..4 in ascending order, each on the value the
\* previous one returned.
C3_FiveInvocations ==
    pc = "returned" =>
        /\ Len(trace) = 5
        /\ \A i \in DOMAIN trace :
               /\ trace[i].stage = i - 1
               /\ trace[i].evolved
               /\ i > 1 => trace[i].recv = trace[i - 1].ret

\* C3 as amended: the loop of a run from the seed makes five iterations,
\* at stage indices 0..4 in ascending order, each receiving what the
\* previous one left; evolve is invoked in the first four only (stages
\* 0..3), the fifth finds no evolve method and breaks; the loop does not
\* end before the fifth iteration.
C3_FiveIterationsFourInvocations ==
    /\ \A i \in DOMAIN trace :
           /\ trace[i].stage = i - 1
           /\ trace[i].evolved = (i <= 4)
           /\ i = 1 => trace[i].recv = Fish
           /\ i > 1 => trace[i].recv = trace[i - 1].ret
    /\ pc = "loop" => Len(trace) = stageIdx /\ stageIdx < 5
    /\ pc = "returned" =>
           /\ Len(trace) = 5
           /\ Cardinality({i \in DOMAIN trace : trace[i].evolved}) = 4

C3_Witness ==
    /\ pc = "returned"
    /\ Len(trace) = 5
    /\ ~trace[5].evolved
    /\ trace[5].recv.kind = "MessageBearer"

\* The immediate successor of each form.
Successor(kind) ==
    CASE kind = "Fish" -> "Amphibian"
      [] kind = "Amphibian" -> "Reptile"
      [] kind = "Reptile" -> "Dinosaur"
      [] kind = "Dinosaur" -> "MessageBearer"

\* C4: a run starts at Fish; each step of the loop moves current to its
\* immediate successor form; no form is entered twice; MessageBearer has
\* no outgoing transition (current stays until another run begins); and
\* every run that begins reaches MessageBearer and returns.
C4_Linear ==
    /\ [][(pc = "loop" /\ HasEvolve(current)) =>
              current'.kind = Successor(current.kind)]_vars
    /\ [][(current.kind = "MessageBearer" /\ runs' = runs) =>
              current' = current]_vars
    /\ [][runs' # runs => current' = Fish]_vars
    /\ [](\A i, j \in DOMAIN trace :
              i < j => trace[i].recv.kind # trace[j].recv.kind)
    /\ (pc = "loop" /\ stageIdx = 0) ~>
           (pc = "returned" /\ current.kind = "MessageBearer")

C4_Witness ==
    /\ pc = "returned"
    /\ current.kind = "MessageBearer"
    /\ [i \in 1..Len(trace) |-> trace[i].recv.kind] = FormAt

\* C5: every value Application.execute has returned in this process is
\* the same string.
C5_Deterministic ==
    \A i, j \in DOMAIN results : results[i] = results[j]

C5_Witness ==
    /\ Len(results) = 3
    /\ app.execution_count = 2
    /\ engine.created
    /\ Len(log_entries) = 10

\* C6: extract_message applied to its own result gives that result again.
C6_Idempotent == rpc = "twice" => r2 = r1

C6_Witness ==
    /\ rpc = "twice"
    /\ rsrc = Str(<<" ", "H", "d">>)
    /\ r2 = r1

\* C7: in a main(debug=False) call that does not fail, standard output
\* receives nothing until Application.run prints, and from then to the
\* end of the call exactly one line, Hello World.
C7_OneLine ==
    ~debug_arg =>
        /\ (pc = "main" \/ InRun({"loop", "returned", "executed"})) =>
               Out = <<>>
        /\ InRun({"after_run", "idle"}) => Out = <<ResultLine(HelloWorld)>>

C7_Witness ==
    /\ ~debug_arg
    /\ InRun({"idle"})
    /\ Len(Out) = 1
    /\ Len(log_entries) = 5

IsStageLine(l) == l.label = "[EVOLUTION] Stage"

\* The stage names of the stage lines among the given lines, in order.
StageNames(lines) ==
    LET sel == SelectSeq(lines, IsStageLine)
    IN [i \in 1..Len(sel) |-> sel[i].stage]

\* C8: in a main(debug=True) call, when execute has returned and nothing
\* has been printed by Application.run yet, the stage lines written are
\* exactly one per stage, in stage order; run then prints Hello World, so
\* that at the end the five stage lines all precede the Hello World line.
C8_StageLinesFirst ==
    debug_arg =>
        /\ InRun({"executed"}) =>
               /\ StageNames(Out) = stages
               /\ \A k \in DOMAIN Out : Out[k] # ResultLine(HelloWorld)
        /\ InRun({"after_run", "idle"}) =>
               /\ StageNames(Out) = stages
               /\ \E k \in DOMAIN Out :
                      /\ Out[k] = ResultLine(HelloWorld)
                      /\ \A j \in DOMAIN Out : IsStageLine(Out[j]) => j < k

C8_Witness ==
    /\ debug_arg
    /\ InRun({"idle"})
    /\ StageNames(Out) = stages

\* C9: an iteration whose evolve raised is the last one of its run: the
\* exception is on its way out of execute (or has ended the process), the
\* logger has one entry per iteration up to the failing one and none
\* after, run_evolution has returned no organism and execute no message.
C9_FailFast ==
    \A i \in DOMAIN trace :
        trace[i].raised =>
            /\ i = Len(trace)
            /\ pc \in {"raised", "exit"}
            /\ Len(log_entries) - logMark = i
            /\ final_form = NoForm
            /\ result = NoResult
            /\ Len(results) = runs - 1

C9_Witness ==
    /\ pc = "raised"
    /\ Len(trace) = 3
    /\ trace[3].raised
    /\ Len(results) = 1

\* C10 as stated: when the pipeline failed inside Application.run, the
\* message is on standard error, the process ends non-zero, execute was
\* called once, and standard output has received nothing in this run.
C10_NoOutputAtAll ==
    (pc = "exit" /\ caller = "run") =>
        /\ Err = <<Line("Error in evolution", "", "", <<>>, <<exception>>)>>
        /\ exitCode # 0
        /\ app.execution_count = 1
        /\ Out = <<>>

\* C10 as amended: when the pipeline failed inside Application.run, the
\* message is on standard error (written by the except clause, not
\* before), the exception goes on to end the process non-zero, execute
\* was called once, and standard output has not received the result line
\* in this run: with the debug flag off it has received nothing at all,
\* with it on only diagnostic lines.
C10_NoResultLine ==
    /\ (pc = "exit" /\ caller = "run") =>
           /\ Err = <<Line("Error in evolution", "", "", <<>>, <<exception>>)>>
           /\ exception # ""
           /\ exitCode # 0
           /\ app.execution_count = 1
           /\ \A k \in DOMAIN Out : Out[k].label = "" => Out[k] = BlankLine
           /\ ~debug_arg => Out = <<>>
    /\ (pc = "raised" /\ caller = "run") => Err = <<>> /\ exitCode = 0
    /\ (exception # "" /\ caller = "run") => pc \in {"raised", "exit"}

C10_Witness ==
    /\ pc = "exit"
    /\ caller = "run"
    /\ debug_arg
    /\ Len(Out) > 0
    /\ Len(Err) = 1

\* A request for a name its registry did not hold.
Unknown(r) == lower(r.name) \notin DOMAIN r.before

\* C11: a request for an unknown species (create_life_form, build) or an
\* unknown strategy (create_strategy) raises the unknown-variant error at
\* the request: nothing is constructed, the registry is as it was, and
\* the registry was looked up once, with no second attempt.
C11_UnknownVariantFails ==
    \A i \in 1..Len(f_log) :
        LET r == f_log[i]
        IN Unknown(r) =>
              /\ r.outcome.raised
              /\ r.outcome.error =
                    (IF r.op = "create_strategy"
                     THEN "ValueError: Unknown strategy type"
                     ELSE "ValueError: Unknown species type")
              /\ r.outcome.made = NoForm
              /\ r.after = r.before
              /\ r.outcome.lookups = 1

\* An unknown species asked of a factory that has had a class registered,
\* after a request by that factory that succeeded.
C11_Witness ==
    /\ Len(f_log) = 2
    /\ ~Unknown(f_log[1])
    /\ f_log[1].name = "Raptor"
    /\ Unknown(f_log[2])
    /\ f_log[2].op = "create_life_form"
    /\ f_log[2].outcome.raised


\* A thread waiting for the registry lock while it holds that lock.
SelfDeadlock(t) == At(t, "acquire") /\ s_lock = t

\* A thread inside the __init__ of a singleton.
InConstructor(t) ==
    \E i \in 1..Len(s_stack[t]) : s_stack[t][i].pc = "init"

\* C12: no thread holds the registry lock while the constructor of a
\* singleton runs, and a constructor that constructs another singleton
\* never leaves its thread waiting for a lock the thread itself holds.
C12_LockFreeInConstructor ==
    \A t \in Threads :
        /\ InConstructor(t) => s_lock # t
        /\ ~SelfDeadlock(t)

\* Every call that has returned to the program, as <<thread, index>>.
ReturnedCalls == {tc \in Threads \X (1..MaxCalls) : tc[2] <= Len(s_returned[tc[1]])}

\* C13: with no clear_instances, whatever the interleaving of the calls,
\* the constructor of each singleton class runs at most once and every
\* call that returns, returns the one instance of its class.
C13_OneInstance ==
    /\ \A c \in Classes : s_ctorRuns[c] <= 1
    /\ \A tc \in ReturnedCalls :
          LET r == s_returned[tc[1]][tc[2]]
          IN /\ ~r.raised
             /\ r.value # 0
             /\ r.value = s_instances[r.cls]

\* Two calls for the same class overlapped: both passed the first test
\* while the class had no instance, one constructed it, and the other,
\* finding it under the lock, constructed nothing; one has returned.
C13_Witness ==
    \E t1, t2 \in Threads :
        /\ t1 # t2
        /\ Len(s_returned[t1]) = 1
        /\ s_returned[t1][1].cls = "B"
        /\ At(t2, "release")
        /\ Top(t2).cls = "B"
        /\ Top(t2).inst = 0
        /\ s_ctorRuns["B"] = 1

\* C20: a construction call running while clear_instances runs always
\* returns an instance of the class asked for; it never fails because
\* the registry entry was removed before the call read it.
C20_NeverKeyError ==
    \A tc \in ReturnedCalls :
        LET r == s_returned[tc[1]][tc[2]]
        IN ~r.raised /\ r.value # 0


\* C14 as stated: evolve leaves the organism it is called on as it was,
\* and two evolve calls on one organism return equal successors.
C14_NoSideEffects ==
    /\ e_pc >= 1 => e_obj = e_orig
    /\ e_pc = 2 => e_first = e_second

\* The factor each class hands to mutate in its evolve.
Factor(kind) ==
    CASE kind = "Fish" -> 2
      [] kind = "Amphibian" -> 3
      [] kind = "Reptile" -> 4
      [] kind = "Dinosaur" -> 5

\* C14: evolve leaves the class and the message fragment of the organism
\* it is called on unchanged and multiplies its complexity by the factor
\* of its class, in place, at every call; two evolve calls on one
\* organism return successors of the same class carrying the same
\* message, the second inheriting the complexity of the first times that
\* factor (the two are equal only for a Dinosaur, whose MessageBearer
\* inherits no complexity).
C14_MessageKeptComplexityGrows ==
    LET f == Factor(e_orig.kind)
    IN /\ e_pc >= 1 =>
             /\ e_obj.kind = e_orig.kind
             /\ e_obj.msg = e_orig.msg
             /\ e_obj.complexity =
                   e_orig.complexity * (IF e_pc = 1 THEN f ELSE f * f)
       /\ e_pc = 2 =>
             /\ e_first.kind = e_second.kind
             /\ e_first.msg = e_second.msg
             /\ IF e_orig.kind = "Dinosaur"
                THEN e_first = e_second
                ELSE /\ e_first.complexity = e_orig.complexity * f
                     /\ e_second.complexity = e_first.complexity * f

\* The default Fish evolved twice: two Amphibians carrying "Hello", of
\* complexity 2 and 4.
C14_Witness ==
    /\ e_pc = 2
    /\ e_orig = Fish
    /\ e_obj.complexity = 4
    /\ e_first = Amphibian(2, H)
    /\ e_second = Amphibian(4, H)


\* The evolve stages applied so far at an index outside 0..4.
BeyondTerminal ==
    {i \in 1..Len(p_applied) :
        p_applied[i].stage = "evolve_stage" /\ p_applied[i].index \notin 0..4}

C16_AllEntriesHelloWorld ==
    /\ \A i \in 1..Len(results) : results[i] = HelloWorld
    /\ \A i \in 1..Len(alt) : alt[i].value = HelloWorld
    /\ \A i \in 1..Len(alt) :
          alt[i].entry = "alternative_main" =>
              \E k \in 1..Len(stdout) : stdout[k] = ResultLine(HelloWorld)

\* The factory of HigherOrderHelloWorld.run has made its Application and
\* execute has returned to it, after two other entry points were called.
C16_Witness ==
    /\ pc = "idle"
    /\ caller = "execute"
    /\ app.execution_count = 1
    /\ Len(results) = 1
    /\ Len(alt) = 2
    /\ alt[1].entry = "metaclass_approach"
    /\ alt[2].entry = "alternative_main"


\* What the logger has recorded since the run in progress began.
RunLog == SubSeq(log_entries, logMark + 1, Len(log_entries))

\* C17: during run_evolution, at each stage reached, each entry of the
\* observer list is notified exactly once, in attachment order, with
\* that stage and the organism the stage received, that is the organism
\* before the stage's transformation; with the two observers
\* initialize_engine attaches, the logger's entries of a complete run are
\* (AQUATIC, Fish), (AMPHIBIOUS, Amphibian), (TERRESTRIAL, Reptile),
\* (APEX_PREDATOR, Dinosaur), (TRANSCENDENT, MessageBearer).
C17_NotifiedOncePerStage ==
    LET n == Len(engine.observers)
    IN pc \in {"loop", "returned"} =>
          /\ Len(calls) = Len(trace) * n
          /\ \A i \in 1..Len(trace) : \A j \in 1..n :
                calls[(i - 1) * n + j] =
                    [observer |-> engine.observers[j], stage |-> stages[i],
                     organism |-> trace[i].recv]
          /\ (pc = "returned"
                 /\ engine.observers = <<"EvolutionLogger", "SilentObserver">>)
             => RunLog =
                  <<[stage |-> "AQUATIC", organism |-> "Fish"],
                    [stage |-> "AMPHIBIOUS", organism |-> "Amphibian"],
                    [stage |-> "TERRESTRIAL", organism |-> "Reptile"],
                    [stage |-> "APEX_PREDATOR", organism |-> "Dinosaur"],
                    [stage |-> "TRANSCENDENT", organism |-> "MessageBearer"]>>

\* A complete run on an engine whose observers are the silent observer
\* and then the logger (the logger detached and attached again): ten
\* notifications, the third being the silent observer's at AMPHIBIOUS
\* with the Amphibian of complexity 2.
C17_Witness ==
    /\ pc = "returned"
    /\ engine.observers = <<"SilentObserver", "EvolutionLogger">>
    /\ Len(calls) = 10
    /\ calls[3] = [observer |-> "SilentObserver", stage |-> "AMPHIBIOUS",
                   organism |-> Amphibian(2, H)]
    /\ Len(RunLog) = 5


\* The attempts that failed and were not the last one allowed.
FailedBeforeLast ==
    {i \in 1..Len(rt_calls) : ~rt_calls[i].ok /\ i < rt_max}

\* C18: for max_attempts >= 1 the wrapped function is called at most
\* max_attempts times and again only after a failure; the wrapper goes
\* on while attempts remain and none has succeeded; the first success is
\* returned and ends the calls; when max_attempts calls have failed the
\* exception of the last one is raised; the wrapper sleeps once after
\* each failed attempt but the last allowed one, and at no other time.
C18_RetryUntilSuccess ==
    LET n == Len(rt_calls)
    IN /\ n <= rt_max
       /\ \A i \in 1..(n - 1) : ~rt_calls[i].ok
       /\ rt_pc = "call" <=> (n < rt_max /\ (n > 0 => ~rt_calls[n].ok))
       /\ rt_pc = "returned" <=> (n > 0 /\ rt_calls[n].ok)
       /\ rt_pc = "returned" => rt_result = rt_calls[n].value
       /\ rt_pc = "raised" <=> (n = rt_max /\ ~rt_calls[n].ok)
       /\ rt_pc = "raised" => rt_result = rt_calls[n].value
       /\ Len(rt_sleeps) = Cardinality(FailedBeforeLast)
       /\ \A k \in 1..Len(rt_sleeps) : rt_sleeps[k] \in FailedBeforeLast
       /\ \A k \in 1..(Len(rt_sleeps) - 1) : rt_sleeps[k] < rt_sleeps[k + 1]

\* Three attempts allowed and three made, failing with e1, e2 and e3: e3
\* is raised, and the wrapper slept after the first and the second.
C18_Witness ==
    /\ rt_max = 3
    /\ rt_pc = "raised"
    /\ rt_calls = <<[ok |-> FALSE, value |-> "e1"],
                    [ok |-> FALSE, value |-> "e2"],
                    [ok |-> FALSE, value |-> "e3"]>>
    /\ rt_result = "e3"
    /\ rt_sleeps = <<1, 2>>


\* C19: over any sequence of str() and force() calls on one LazyMessage
\* whose generator returns strings, the empty string included, the
\* generator is not invoked before the first call, is invoked exactly
\* once from the first call on, and every call returns the value that
\* one invocation returned.
C19_GeneratedOnce ==
    IF lz_returns = <<>>
    THEN lz_genCalls = 0 /\ ~lz.has
    ELSE /\ lz_genCalls = 1
         /\ lz.has
         /\ \A i \in 1..Len(lz_returns) : lz_returns[i].value = lz.value

\* The generator returned the empty string at the first call; two more
\* calls, one of each kind, returned it again although the generator
\* would by then have returned "H".
C19_Witness ==
    /\ Len(lz_returns) = 3
    /\ lz_returns[1].value = <<>>
    /\ lz_returns[2].call = "str"
    /\ lz_returns[3].call = "force"
    /\ lz.generator = H
    /\ lz_genCalls = 1


\* What the logger records in one complete run.
FiveEntries ==
    <<[stage |-> "AQUATIC", organism |-> "Fish"],
      [stage |-> "AMPHIBIOUS", organism |-> "Amphibian"],
      [stage |-> "TERRESTRIAL", organism |-> "Reptile"],
      [stage |-> "APEX_PREDATOR", organism |-> "Dinosaur"],
      [stage |-> "TRANSCENDENT", organism |-> "MessageBearer"]>>

\* C21: on one orchestrator, however many run_evolution_pipeline calls
\* are made, initialize_engine is called at most once, and exactly when
\* the first of them begins; the engine has exactly two observers, the
\* EvolutionLogger then the SilentObserver; the logger's list holds the
\* five entries of every earlier run on that orchestrator, in order,
\* followed by those of the run in progress, so that it grows by five
\* per run and nothing is ever removed from it.
C21_OneEngineFivePerRun ==
    /\ orch.builds <= 1
    /\ orch.builds = (IF orch.runs > 0 THEN 1 ELSE 0)
    /\ engine.created <=> orch.builds = 1
    /\ engine.created =>
          /\ engine.observers = <<"EvolutionLogger", "SilentObserver">>
          /\ logMark = 5 * (orch.runs - 1)
          /\ Len(log_entries) = logMark + Len(trace)
          /\ pc # "loop" => Len(trace) = 5
          /\ \A i \in 1..Len(log_entries) :
                log_entries[i] = FiveEntries[((i - 1) % 5) + 1]

\* Three runs on one orchestrator, the last one complete: one engine
\* built, fifteen entries in the logger.
C21_Witness ==
    /\ orch = [builds |-> 1, runs |-> 3]
    /\ pc = "idle"
    /\ Len(log_entries) = 15
    /\ logMark = 10


\* The organisms the five stages of a run from the seed receive.
SeedForms ==
    <<Fish, Amphibian(2, H), Reptile(6, H \o ello),
      Dinosaur(24, H \o ello \o Space), MessageBearer(HelloWorld)>>

\* C22: whatever strategy the engine was constructed with and whatever
\* set_strategy calls are made before or during the run, run_evolution
\* from the seed makes the same stage steps (the same organism received
\* and left at each stage, evolve called at stages 0..3 only), notifies
\* the observers of the same stages and organisms in the same order, and
\* returns the MessageBearer of "Hello World".
C22_StrategyIgnored ==
    pc \in {"loop", "returned"} =>
        /\ Len(trace) <= 5
        /\ \A i \in 1..Len(trace) :
              trace[i] = Iteration(i - 1, SeedForms[i], i < 5, FALSE,
                                   SeedForms[IF i < 5 THEN i + 1 ELSE 5])
        /\ Len(calls) = 2 * Len(trace)
        /\ \A i \in 1..Len(trace) :
              /\ calls[2 * i - 1] =
                    [observer |-> "EvolutionLogger", stage |-> stages[i],
                     organism |-> SeedForms[i]]
              /\ calls[2 * i] =
                    [observer |-> "SilentObserver", stage |-> stages[i],
                     organism |-> SeedForms[i]]
        /\ pc = "returned" =>
              /\ Len(trace) = 5
              /\ final_form = MessageBearer(HelloWorld)
              /\ generate(final_form, "composed") = HelloWorld

\* A second run has returned on an engine whose strategy is by now the
\* accelerated one of factor 3.
C22_Witness ==
    /\ pc = "returned"
    /\ runs = 2
    /\ engine.strategy = AcceleratedStrategy(3)
    /\ Len(trace) = 5
    /\ final_form = MessageBearer(HelloWorld)


=============================================================================
